---- MODULE Spec2Model ----
(***************************************************************************)
(* NoClash: the extra-class booking endpoint POST /api/book-extra-class of *)
(* Backend/server.js, its pooled connections (Backend/lib/db.js), the      *)
(* Schedule table it reads and writes, and the two endpoints that return   *)
(* schedules, GET /api/professor/my-schedule and /api/student/my-schedule. *)
(*                                                                         *)
(* Values.  A calendar date YYYY-MM-DD is its day number (an integer); the *)
(* weekday of day d is d % 7.  A time of day "HH:MM" or "HH:MM:SS" is a    *)
(* record [k, hm, s]: k is the shape of the string, hm the index of the    *)
(* HH:MM part among the minute slots of the model, s the seconds.  A       *)
(* DATETIME is a record [d, t]: day number and tick of the day, a tick     *)
(* being one seconds step.  An instant is a number of hours since 00:00    *)
(* UTC of day 0.                                                           *)
(*                                                                         *)
(* The store.  A row inserted by an open transaction is invisible to the   *)
(* others until COMMIT and is locked by its inserter.  The locking read    *)
(* (SELECT ... LIMIT 1 FOR UPDATE) reads the latest committed rows, locks  *)
(* the row it returns until its transaction ends, and waits on a matching  *)
(* row that another open transaction inserted or locked.  Range (gap)      *)
(* locks depend on the isolation level and on the indexes of a schema the  *)
(* repository does not contain; they are not modelled.                     *)
(*                                                                         *)
(* The pool hands out at most connectionLimit connections, 10 unless the   *)
(* environment sets DB_CONN_LIMIT, and a getConnection() beyond that waits *)
(* for a release.                                                          *)
(*                                                                         *)
(* Every await of the handler is one step.  An awaited call may reject     *)
(* (Reject, CatchRejects) and an INSERT may report affectedRows = 0        *)
(* (InsertAffectsNone); at most MaxFaults such faults happen in a run.  A  *)
(* foreign-key error is an outcome of the request and is not counted.  A   *)
(* call that rejected may have done so because the connection is lost, in  *)
(* which case the rollback of the catch block rejects as well, at no cost  *)
(* to the budget.  A COMMIT that rejects has committed nothing.            *)
(*                                                                         *)
(* The schedule endpoints take a connection, run one plain SELECT and      *)
(* release the connection; each is one step, and the SELECT sees the       *)
(* committed rows.                                                         *)
(*                                                                         *)
(* Progress.  The event loop resumes a handler once the call it awaits has *)
(* settled, and the store answers every call; a locking read that waits    *)
(* for a lock is answered at the latest when the store gives the wait up   *)
(* (lock wait timeout), and then rejects (LockWaitTimeout).                *)
(***************************************************************************)
EXTENDS Integers, Sequences, FiniteSets, TLC

\* ------------------------------------------------------------------ bounds
NumAttempts == 2      \* concurrent booking requests
MaxHM == 2            \* minute slots 0..MaxHM of a day
MaxSec == 1           \* seconds values 0..MaxSec of a minute slot
MaxFaults == 1        \* awaited calls that may reject in one run
Day0 == 14            \* the UTC calendar day of the run

\* ------------------------------------------------------- program constants
ConnectionLimit == 10
HoursPerDay == 24
DaysPerWeek == 7
NullId == 0 - 1       \* a field that is absent from the request body

Attempts == 1..NumAttempts

\* -------------------------------------------------------------------- state
VARIABLES
    now,        \* the instant the requests arrive at
    tz,         \* offset of the server's local time from UTC, in hours
    schedule,   \* the rows of Schedule; owner = 0 when committed, else the
                \* attempt whose open transaction inserted the row
    nextId,     \* AUTO_INCREMENT of Schedule.schedule_id
    rowLocks,   \* <<schedule_id, attempt>>: row locks taken by FOR UPDATE
    pc,         \* where each attempt's handler is
    req,        \* its request
    conn,       \* it holds a pooled connection (the variable connection)
    txn,        \* a transaction is open on that connection
    conflicts,  \* the rows its conflict query returned
    insertId,   \* insertResult.insertId
    err,        \* the error last thrown in the handler: "fk", "other", or
                \* "rollback" when the rollback of the catch block threw
    status,     \* the HTTP status it answered with, 0 while it has not
    faults,     \* awaited calls that rejected so far
    view,       \* the latest answer of a schedule endpoint
    limit       \* connectionLimit of the pool, fixed when the server starts

vars == <<now, tz, schedule, nextId, rowLocks, pc, req, conn, txn, conflicts,
          insertId, err, status, faults, view, limit>>

Committed == {r \in schedule : r.owner = 0}
InUse == Cardinality({p \in Attempts : conn[p]})

\* ------------------------------------------------------------ time strings
TimeOK(t) == t.k \in {"hm", "hms"}

\* JavaScript's string comparison a < b on two strings that match timeRegex:
\* the HH:MM prefixes compare as numbers (fixed width), and on equal prefixes
\* the 5-character string is a proper prefix of the 8-character one.
TimeStrLess(a, b) ==
    \/ a.hm < b.hm
    \/ /\ a.hm = b.hm
       /\ \/ a.k = "hm" /\ b.k = "hms"
          \/ a.k = "hms" /\ b.k = "hms" /\ a.s < b.s

\* `${class_date} ${t.length === 5 ? t + ':00' : t}` read by MySQL as DATETIME
FullTime(d, t) ==
    [d |-> d, t |-> t.hm * (MaxSec + 1) + (IF t.k = "hm" THEN 0 ELSE t.s)]

DtLess(a, b) == a.d < b.d \/ (a.d = b.d /\ a.t < b.t)

\* DATE_FORMAT(x, '%H:%i'): the minute slot of a DATETIME
HourMinute(x) == x.t \div (MaxSec + 1)

\* ------------------------------------------------------------------- dates
\* new Date(class_date + 'T00:00:00Z') as an instant
UtcMidnight(d) == d * HoursPerDay

\* floor division for instants that may be negative
FloorDiv(a, b) == IF a >= 0 THEN a \div b ELSE 0 - ((b - 1 - a) \div b)

\* today = new Date(); today.setHours(0,0,0,0): local midnight of the local
\* calendar day, as an instant
LocalDay(nowI, off) == FloorDiv(nowI + off, HoursPerDay)
LocalMidnight(nowI, off) == LocalDay(nowI, off) * HoursPerDay - off

\* the weekday of calendar day d, as the column day_of_week names it
DayOfWeek(d) == d % DaysPerWeek

\* x.toLocaleDateString('en-US', {weekday:'long', timeZone: ...}): the
\* weekday of the calendar day instant i falls on at offset off from UTC
WeekdayAt(i, off) == DayOfWeek(FloorDiv(i + off, HoursPerDay))


\* ---------------------------------------------------------------- requests
\* the request body and the verified token of one POST /api/book-extra-class
TimeOfDay(k, hm, s) == [k |-> k, hm |-> hm, s |-> s]
DateOf(k, d) == [k |-> k, d |-> d]

\* the Authorization header: absent, a token jwt.verify rejects, or a token
\* it accepts, with the payload that was signed at login
Token(kind, uid, role) == [kind |-> kind, user_id |-> uid, role |-> role]

\* the handler takes the professor from the verified token; the body may
\* carry a professor_id (bp) as well
ProfessorIdFromBody(t, bp) == IF bp # NullId THEN bp ELSE t.user_id

\* const professor_id = req.user.user_id
ProfessorId(t, bp) == t.user_id

\* a request of a logged-in professor: professor is the user_id of the token
Request(prof, course, batch, room, date, st, en) ==
    [professor |-> prof, course |-> course, batch |-> batch, classroom |-> room,
     date |-> date, start |-> st, end |-> en,
     token |-> Token("valid", prof, "Professor"), body_professor |-> NullId]

\* the input validation of the handler, in the order of its early returns
Validate(q, nowI, off) ==
    IF \/ q.course = NullId \/ q.batch = NullId \/ q.classroom = NullId
       \/ q.date.k = "missing" \/ q.start.k = "missing" \/ q.end.k = "missing"
    THEN "missing"
    ELSE IF q.date.k = "bad" \/ ~TimeOK(q.start) \/ ~TimeOK(q.end)
    THEN "format"
    ELSE IF ~TimeStrLess(q.start, q.end)
    THEN "order"
    ELSE IF q.date.k = "nan" \/ UtcMidnight(q.date.d) < LocalMidnight(nowI, off)
    THEN "past"
    ELSE "ok"

FullStartTime(q) == FullTime(q.date.d, q.start)

\* the end stamped with the local calendar date of the UTC midnight
FullEndTimeLocal(q) == FullTime(LocalDay(UtcMidnight(q.date.d), tz), q.end)

FullEndTime(q) == FullTime(q.date.d, q.end)

\* the weekday taken without timeZone: 'UTC', in the server's local time
ReqDayOfWeekLocal(q) == WeekdayAt(UtcMidnight(q.date.d), tz)

\* dateObj = new Date(class_date + 'T00:00:00Z'); dayOfWeek =
\* dateObj.toLocaleDateString('en-US', {weekday:'long', timeZone:'UTC'})
ReqDayOfWeek(q) == WeekdayAt(UtcMidnight(q.date.d), 0)

\* ---------------------------------------------------------- Schedule table
NoDate == 0 - 1       \* class_date IS NULL
NoDay == 0 - 1        \* day_of_week IS NULL

\* rows of the tables the Schedule foreign keys point to
CourseIds == {1}
Batches ==
    { [batch_id |-> 1, division_id |-> 1],
      [batch_id |-> 2, division_id |-> 1],
      [batch_id |-> 3, division_id |-> 2] }
BatchIds == {b.batch_id : b \in Batches}
DivisionIds == {b.division_id : b \in Batches}
ClassroomIds == {1, 2}
ProfessorIds == {1, 2}

Row(id, course, prof, batch, room, dow, st, en, ctype, cdate, owner) ==
    [id |-> id, course |-> course, professor |-> prof, batch |-> batch,
     classroom |-> room, dow |-> dow, st |-> st, en |-> en,
     ctype |-> ctype, cdate |-> cdate, owner |-> owner]

\* (s.classroom_id = ? OR s.professor_id = ? OR s.batch_id = ?)
SharesResource(r, q) ==
    \/ r.classroom = q.classroom
    \/ r.professor = q.professor
    \/ r.batch = q.batch

\* the overlap test with fullStartTime and fullEndTime bound in the other order
TimeOverlapSwapped(r, q) ==
    DtLess(r.st, FullStartTime(q)) /\ DtLess(FullEndTime(q), r.en)

\* the overlap test with <= and >= for < and >
TimeOverlapClosed(r, q) ==
    ~DtLess(FullEndTime(q), r.st) /\ ~DtLess(r.en, FullStartTime(q))

\* (s.start_time < ? AND s.end_time > ?) with fullEndTime, fullStartTime
TimeOverlap(r, q) == DtLess(r.st, FullEndTime(q)) /\ DtLess(FullStartTime(q), r.en)

\* the WHERE clause without its test of class_date on Extra rows
ConflictWhereAnyDate(r, q) ==
    /\ DtLess(r.st, [FullEndTime(q) EXCEPT !.d = r.st.d])
    /\ DtLess([FullStartTime(q) EXCEPT !.d = r.en.d], r.en)
    /\ \/ r.ctype = "Extra" /\ SharesResource(r, q)
       \/ r.ctype = "Base" /\ r.dow = ReqDayOfWeek(q) /\ SharesResource(r, q)

\* the WHERE clause of conflictQuery
ConflictWhere(r, q) ==
    /\ TimeOverlap(r, q)
    /\ \/ r.ctype = "Extra" /\ r.cdate = q.date.d /\ SharesResource(r, q)
       \/ r.ctype = "Base" /\ r.dow = ReqDayOfWeek(q) /\ SharesResource(r, q)

\* the CASE with its professor branch first
ConflictEntityProfessorFirst(r, q) ==
    IF r.professor = q.professor THEN "Professor"
    ELSE IF r.classroom = q.classroom THEN "Classroom"
    ELSE IF r.batch = q.batch THEN "Batch"
    ELSE "Unknown Conflict"

\* CASE ... END AS conflict_entity
ConflictEntity(r, q) ==
    IF r.classroom = q.classroom THEN "Classroom"
    ELSE IF r.professor = q.professor THEN "Professor"
    ELSE IF r.batch = q.batch THEN "Batch"
    ELSE "Unknown Conflict"

\* one row of the conflict query's result: the Schedule row it comes from and
\* the columns of the SELECT list
ResultRow(r, q) ==
    [row |-> r, conflict_entity |-> ConflictEntity(r, q),
     class_type |-> r.ctype, day_of_week |-> r.dow, class_date |-> r.cdate,
     existing_start |-> HourMinute(r.st), existing_end |-> HourMinute(r.en)]

\* conflict.day_of_week || conflict.class_date: the first that is not NULL
TimeLabel(c) ==
    IF c.day_of_week # NoDay
    THEN [column |-> "day_of_week", value |-> c.day_of_week]
    ELSE [column |-> "class_date", value |-> c.class_date]

\* the message of the 409 answer, built from conflicts[0]
Reason(c) ==
    [entity |-> c.conflict_entity, class_type |-> c.class_type,
     label |-> TimeLabel(c),
     existing_start |-> c.existing_start, existing_end |-> c.existing_end]

\* the INSERT's foreign keys all point to existing rows
ForeignKeysOK(q) ==
    /\ q.course \in CourseIds
    /\ q.batch \in BatchIds
    /\ q.classroom \in ClassroomIds
    /\ q.professor \in ProfessorIds

\* the row inserted as a weekly class, without its date
InsertRowWeekly(id, q, p) ==
    Row(id, q.course, q.professor, q.batch, q.classroom, ReqDayOfWeek(q),
        FullStartTime(q), FullEndTime(q), "Base", NoDate, p)

\* insertParams as a row, uncommitted and owned by transaction p
InsertRow(id, q, p) ==
    Row(id, q.course, q.professor, q.batch, q.classroom, ReqDayOfWeek(q),
        FullStartTime(q), FullEndTime(q), "Extra", q.date.d, p)


\* ----------------------------------------------------------- input domains
HMTimes == {TimeOfDay("hm", h, 0) : h \in 0..MaxHM}
HMSTimes == {TimeOfDay("hms", h, s) : h \in 0..MaxHM, s \in 0..MaxSec}
NoTime == TimeOfDay("missing", 0, 0)
BadTime == TimeOfDay("bad", 0, 0)
AllTimes == HMTimes \cup HMSTimes \cup {NoTime, BadTime}

OkDate(d) == DateOf("ok", d)
AllDates == {OkDate(d) : d \in {Day0 - 1, Day0, Day0 + 1, Day0 + 7}}
            \cup {DateOf("missing", 0), DateOf("bad", 0), DateOf("nan", 0)}

Slot(d, h) == [d |-> d, t |-> h * (MaxSec + 1)]

BaseReq == Request(1, 1, 1, 1, OkDate(Day0), TimeOfDay("hm", 0, 0), TimeOfDay("hm", 1, 0))

\* well-formed requests over every combination of the three resources
CoreRequests(dates) ==
    {Request(pr, 1, b, c, OkDate(d), s, e) :
        pr \in ProfessorIds, b \in {1, 2}, c \in ClassroomIds, d \in dates,
        s \in HMTimes, e \in {x \in HMTimes : x.hm > 0}}

\* requests with a missing field, a malformed date, a past date, and a course
\* that does not exist
EdgeRequests ==
    { [BaseReq EXCEPT !.classroom = NullId],
      [BaseReq EXCEPT !.date = DateOf("bad", 0)],
      [BaseReq EXCEPT !.date = OkDate(Day0 - 1)],
      [BaseReq EXCEPT !.course = 9] }

Requests == CoreRequests({Day0, Day0 + 7}) \cup EdgeRequests

\* every shape of date and time, every kind of id
WideRequests ==
    CoreRequests({Day0, Day0 + 1, Day0 + 7})
    \cup {[BaseReq EXCEPT !.date = d, !.start = s, !.end = e] :
            d \in AllDates, s \in AllTimes, e \in AllTimes}
    \cup {[BaseReq EXCEPT !.course = c, !.batch = b, !.classroom = r] :
            c \in {NullId, 1, 9}, b \in {NullId, 1, 9}, r \in {NullId, 1, 9}}

\* a Base row seeded out of band: weekly on weekday dow, slots [h1, h2), its
\* DATETIME columns carrying the calendar date sd
BaseRow(id, pr, b, c, dow, sd, h1, h2) ==
    Row(id, 1, pr, b, c, dow, Slot(sd, h1), Slot(sd, h2), "Base", NoDate, 0)

\* an Extra row committed by an earlier booking
ExtraRow(id, pr, b, c, d, h1, h2) ==
    Row(id, 1, pr, b, c, DayOfWeek(d), Slot(d, h1), Slot(d, h2), "Extra", d, 0)

SeedStores ==
    { {} } \cup
    { {BaseRow(1, 1, 1, 1, DayOfWeek(Day0), sd, 1, 2)} : sd \in {Day0 - 7, Day0} }

WideSeedStores ==
    { {} } \cup
    { {BaseRow(1, pr, 1, 1, DayOfWeek(d), sd, 1, 2)} :
        pr \in ProfessorIds, d \in {Day0, Day0 + 1}, sd \in {Day0 - 7, Day0, Day0 + 7} }
    \cup
    { {ExtraRow(1, 1, b, 2, d, 1, 2), ExtraRow(2, 2, 2, 1, Day0, 0, 1)} :
        b \in BatchIds, d \in {Day0, Day0 + 7} }

TZOffsets == {0 - 5, 0, 5}
Nows == {Day0 * HoursPerDay + 2, Day0 * HoursPerDay + 22}

\* the answer of a schedule endpoint: who asked, the status, the rows sent
View(kind, pr, b, d, st, rows) ==
    [kind |-> kind, professor |-> pr, batch |-> b, division |-> d,
     status |-> st, rows |-> rows]
NoView == View("none", NullId, NullId, NullId, 0, {})

\* req.user of a student: batch_id and division_id as the token carries them
StudentTokens ==
    {[batch |-> b, division |-> d] :
        b \in BatchIds \cup {NullId}, d \in DivisionIds \cup {NullId}}

ZeroReq == Request(0, 0, 0, 0, DateOf("missing", 0), NoTime, NoTime)

InitEnv(stores, nows, offsets, limits) ==
    /\ limit \in limits
    /\ now \in nows
    /\ tz \in offsets
    /\ schedule \in stores
    /\ nextId = Cardinality(schedule) + 1
    /\ rowLocks = {}
    /\ pc = [p \in Attempts |-> "idle"]
    /\ req = [p \in Attempts |-> ZeroReq]
    /\ conn = [p \in Attempts |-> FALSE]
    /\ txn = [p \in Attempts |-> FALSE]
    /\ conflicts = [p \in Attempts |-> {}]
    /\ insertId = [p \in Attempts |-> 0]
    /\ err = [p \in Attempts |-> "none"]
    /\ status = [p \in Attempts |-> 0]
    /\ faults = 0
    /\ view = NoView

\* the server started without DB_CONN_LIMIT
InitWith(stores, nows, offsets) == InitEnv(stores, nows, offsets, {ConnectionLimit})

Init == InitWith(SeedStores, {Day0 * HoursPerDay + 12}, {0})

\* ------------------------------------------------------------------ actions
\* The handler up to its first await: validation, then pool.getConnection()
\* is called.
SubmitFrom(p, R) ==
    /\ pc[p] = "idle"
    /\ \E q \in R :
        /\ req' = [req EXCEPT ![p] = q]
        /\ IF Validate(q, now, tz) = "ok"
           THEN /\ pc' = [pc EXCEPT ![p] = "getConnection"]
                /\ status' = status
           ELSE /\ pc' = [pc EXCEPT ![p] = "done"]
                /\ status' = [status EXCEPT ![p] = 400]
    /\ UNCHANGED <<limit, view, now, tz, schedule, nextId, rowLocks, conn, txn, conflicts,
                   insertId, err, faults>>

Submit(p) == SubmitFrom(p, Requests)

\* verifyToken and isProfessor: the status they answer with, 0 when they
\* call next()
Middleware(t) ==
    IF t.kind = "none" THEN 401
    ELSE IF t.kind = "invalid" THEN 403
    ELSE IF t.role # "Professor" THEN 403
    ELSE 0

\* the route with its middleware, for a header t and a body q that may carry
\* a professor_id of its own
SubmitWithToken(p, T, Q, BP) ==
    /\ pc[p] = "idle"
    /\ \E t \in T : \E q \in Q : \E bp \in BP :
        IF Middleware(t) # 0
        THEN /\ req' = [req EXCEPT ![p] =
                        [q EXCEPT !.professor = NullId, !.token = t,
                                  !.body_professor = bp]]
             /\ pc' = [pc EXCEPT ![p] = "done"]
             /\ status' = [status EXCEPT ![p] = Middleware(t)]
        ELSE /\ req' = [req EXCEPT ![p] =
                        [q EXCEPT !.professor = ProfessorId(t, bp), !.token = t,
                                  !.body_professor = bp]]
             /\ IF Validate(q, now, tz) = "ok"
                THEN /\ pc' = [pc EXCEPT ![p] = "getConnection"]
                     /\ status' = status
                ELSE /\ pc' = [pc EXCEPT ![p] = "done"]
                     /\ status' = [status EXCEPT ![p] = 400]
    /\ UNCHANGED <<limit, view, now, tz, schedule, nextId, rowLocks, conn, txn,
                   conflicts, insertId, err, faults>>

\* connection = await pool.getConnection(): waits while the pool is exhausted
GetConnection(p) ==
    /\ pc[p] = "getConnection"
    /\ InUse < limit
    /\ conn' = [conn EXCEPT ![p] = TRUE]
    /\ pc' = [pc EXCEPT ![p] = "begin"]
    /\ UNCHANGED <<limit, view, now, tz, schedule, nextId, rowLocks, req, txn, conflicts,
                   insertId, err, status, faults>>

\* await connection.beginTransaction()
BeginTransaction(p) ==
    /\ pc[p] = "begin"
    /\ txn' = [txn EXCEPT ![p] = TRUE]
    /\ pc' = [pc EXCEPT ![p] = "query"]
    /\ UNCHANGED <<limit, view, now, tz, schedule, nextId, rowLocks, req, conn, conflicts,
                   insertId, err, status, faults>>

\* rows of the table the locking read of p would return
Matching(p) == {r \in schedule : ConflictWhere(r, req[p])}
LockedByOther(r, p) ==
    \/ r.owner \notin {0, p}
    \/ \E l \in rowLocks : l[1] = r.id /\ l[2] # p

\* the conflict query with its result ignored: the handler goes on to insert
ConflictQueryIgnored(p) ==
    /\ pc[p] = "query"
    /\ \/ \E r \in Matching(p) :
            /\ ~LockedByOther(r, p)
            /\ conflicts' = [conflicts EXCEPT ![p] = {ResultRow(r, req[p])}]
            /\ rowLocks' = rowLocks \cup {<<r.id, p>>}
       \/ /\ Matching(p) = {}
          /\ conflicts' = [conflicts EXCEPT ![p] = {}]
          /\ rowLocks' = rowLocks
    /\ pc' = [pc EXCEPT ![p] = "insert"]
    /\ UNCHANGED <<limit, view, now, tz, schedule, nextId, req, conn, txn, insertId, err,
                   status, faults>>

\* await connection.query(conflictQuery, conflictParams): a locking read.  It
\* reads the latest committed rows, returns one matching row (LIMIT 1, in no
\* stated order) and locks it; it waits on a matching row that another open
\* transaction inserted or locked.
ConflictQuery(p) ==
    /\ pc[p] = "query"
    /\ \/ \E r \in Matching(p) :
            /\ ~LockedByOther(r, p)
            /\ conflicts' = [conflicts EXCEPT ![p] = {ResultRow(r, req[p])}]
            /\ rowLocks' = rowLocks \cup {<<r.id, p>>}
            /\ pc' = [pc EXCEPT ![p] = "conflict"]
       \/ /\ Matching(p) = {}
          /\ conflicts' = [conflicts EXCEPT ![p] = {}]
          /\ rowLocks' = rowLocks
          /\ pc' = [pc EXCEPT ![p] = "insert"]
    /\ UNCHANGED <<limit, view, now, tz, schedule, nextId, req, conn, txn, insertId, err,
                   status, faults>>

\* ROLLBACK of p's transaction: its uncommitted rows and its locks go
RolledBack(p) == {r \in schedule : r.owner # p}
Unlocked(p) == {l \in rowLocks : l[2] # p}

\* the conflict branch answering 409 without its rollback
ConflictNoRollback(p) ==
    /\ pc[p] = "conflict"
    /\ status' = [status EXCEPT ![p] = 409]
    /\ conn' = [conn EXCEPT ![p] = FALSE]
    /\ pc' = [pc EXCEPT ![p] = "done"]
    /\ UNCHANGED <<limit, view, now, tz, schedule, nextId, rowLocks, req, txn, conflicts,
                   insertId, err, faults>>

\* conflicts.length > 0: await connection.rollback(); return res.status(409);
\* the finally block releases the connection
ConflictRollback(p) ==
    /\ pc[p] = "conflict"
    /\ schedule' = RolledBack(p)
    /\ rowLocks' = Unlocked(p)
    /\ txn' = [txn EXCEPT ![p] = FALSE]
    /\ status' = [status EXCEPT ![p] = 409]
    /\ conn' = [conn EXCEPT ![p] = FALSE]
    /\ pc' = [pc EXCEPT ![p] = "done"]
    /\ UNCHANGED <<limit, view, now, tz, nextId, req, conflicts, insertId, err, faults>>

\* await connection.query(insertQuery, insertParams); a foreign key that
\* points nowhere rejects with errno 1452
Insert(p) ==
    /\ pc[p] = "insert"
    /\ IF ForeignKeysOK(req[p])
       THEN /\ schedule' = schedule \cup {InsertRow(nextId, req[p], p)}
            /\ nextId' = nextId + 1
            /\ insertId' = [insertId EXCEPT ![p] = nextId]
            /\ pc' = [pc EXCEPT ![p] = "commit"]
            /\ err' = err
       ELSE /\ err' = [err EXCEPT ![p] = "fk"]
            /\ pc' = [pc EXCEPT ![p] = "catch"]
            /\ UNCHANGED <<schedule, nextId, insertId>>
    /\ UNCHANGED <<limit, view, now, tz, rowLocks, req, conn, txn, conflicts, status, faults>>

\* the success branch answering 201 while the transaction's rows are lost
CommitLost(p) ==
    /\ pc[p] = "commit"
    /\ schedule' = RolledBack(p)
    /\ rowLocks' = Unlocked(p)
    /\ txn' = [txn EXCEPT ![p] = FALSE]
    /\ status' = [status EXCEPT ![p] = 201]
    /\ conn' = [conn EXCEPT ![p] = FALSE]
    /\ pc' = [pc EXCEPT ![p] = "done"]
    /\ UNCHANGED <<limit, view, now, tz, nextId, req, conflicts, insertId, err, faults>>

\* affectedRows === 1: await connection.commit(); res.status(201); the
\* finally block releases the connection
Commit(p) ==
    /\ pc[p] = "commit"
    /\ schedule' = {IF r.owner = p THEN [r EXCEPT !.owner = 0] ELSE r : r \in schedule}
    /\ rowLocks' = Unlocked(p)
    /\ txn' = [txn EXCEPT ![p] = FALSE]
    /\ status' = [status EXCEPT ![p] = 201]
    /\ conn' = [conn EXCEPT ![p] = FALSE]
    /\ pc' = [pc EXCEPT ![p] = "done"]
    /\ UNCHANGED <<limit, view, now, tz, nextId, req, conflicts, insertId, err, faults>>

\* the INSERT resolves with affectedRows = 0: no row was added
InsertAffectsNone(p) ==
    /\ pc[p] = "insert"
    /\ ForeignKeysOK(req[p])
    /\ faults < MaxFaults
    /\ faults' = faults + 1
    /\ pc' = [pc EXCEPT ![p] = "noRow"]
    /\ UNCHANGED <<limit, view, now, tz, schedule, nextId, rowLocks, req, conn, txn,
                   conflicts, insertId, err, status>>

\* affectedRows !== 1: await connection.rollback(); throw new Error(...)
NoRowRollback(p) ==
    /\ pc[p] = "noRow"
    /\ schedule' = RolledBack(p)
    /\ rowLocks' = Unlocked(p)
    /\ txn' = [txn EXCEPT ![p] = FALSE]
    /\ err' = [err EXCEPT ![p] = "other"]
    /\ pc' = [pc EXCEPT ![p] = "catch"]
    /\ UNCHANGED <<limit, view, now, tz, nextId, req, conn, conflicts, insertId, status,
                   faults>>

\* an awaited call of the try block rejects (connection lost, timeout, ...)
Reject(p) ==
    /\ pc[p] \in {"getConnection", "begin", "query", "conflict", "insert",
                  "noRow", "commit"}
    /\ faults < MaxFaults
    /\ faults' = faults + 1
    /\ err' = [err EXCEPT ![p] = "other"]
    /\ pc' = [pc EXCEPT ![p] = "catch"]
    /\ UNCHANGED <<limit, view, now, tz, schedule, nextId, rowLocks, req, conn, txn,
                   conflicts, insertId, status>>

\* the catch block without the release of the finally block
CatchHoldsConnection(p) ==
    /\ pc[p] = "catch"
    /\ schedule' = RolledBack(p)
    /\ rowLocks' = Unlocked(p)
    /\ txn' = [txn EXCEPT ![p] = FALSE]
    /\ status' = [status EXCEPT ![p] = IF err[p] = "fk" THEN 400 ELSE 500]
    /\ pc' = [pc EXCEPT ![p] = "done"]
    /\ UNCHANGED <<limit, view, now, tz, nextId, req, conn, conflicts, insertId,
                   err, faults>>

\* the catch block rolling back and running the transaction again
CatchRetries(p) ==
    /\ pc[p] = "catch"
    /\ schedule' = RolledBack(p)
    /\ rowLocks' = Unlocked(p)
    /\ txn' = [txn EXCEPT ![p] = FALSE]
    /\ IF err[p] = "other" /\ conn[p]
       THEN /\ pc' = [pc EXCEPT ![p] = "begin"]
            /\ err' = [err EXCEPT ![p] = "none"]
            /\ UNCHANGED <<status, conn>>
       ELSE /\ status' = [status EXCEPT ![p] = IF err[p] = "fk" THEN 400 ELSE 500]
            /\ conn' = [conn EXCEPT ![p] = FALSE]
            /\ pc' = [pc EXCEPT ![p] = "done"]
            /\ err' = err
    /\ UNCHANGED <<limit, view, now, tz, nextId, req, conflicts, insertId, faults>>

\* the catch block answering 500 whatever the error
CatchAnswers500(p) ==
    /\ pc[p] = "catch"
    /\ schedule' = RolledBack(p)
    /\ rowLocks' = Unlocked(p)
    /\ txn' = [txn EXCEPT ![p] = FALSE]
    /\ status' = [status EXCEPT ![p] = 500]
    /\ conn' = [conn EXCEPT ![p] = FALSE]
    /\ pc' = [pc EXCEPT ![p] = "done"]
    /\ UNCHANGED <<limit, view, now, tz, nextId, req, conflicts, insertId, err, faults>>

\* catch: if (connection) await connection.rollback(); 400 for errno 1452,
\* else 500; the finally block releases the connection
Catch(p) ==
    /\ pc[p] = "catch"
    /\ schedule' = RolledBack(p)
    /\ rowLocks' = Unlocked(p)
    /\ txn' = [txn EXCEPT ![p] = FALSE]
    /\ status' = [status EXCEPT ![p] = IF err[p] = "fk" THEN 400 ELSE 500]
    /\ conn' = [conn EXCEPT ![p] = FALSE]
    /\ pc' = [pc EXCEPT ![p] = "done"]
    /\ UNCHANGED <<limit, view, now, tz, nextId, req, conflicts, insertId, err, faults>>

\* the rollback of the catch block rejects, as a fault of its own or because
\* the connection was lost by the call that rejected before: the error leaves
\* the handler, no answer is sent, and the finally block releases the
\* connection
CatchRejects(p) ==
    /\ pc[p] = "catch"
    /\ conn[p]
    /\ err[p] = "other" \/ faults < MaxFaults
    /\ faults' = IF err[p] = "other" THEN faults ELSE faults + 1
    /\ err' = [err EXCEPT ![p] = "rollback"]
    /\ conn' = [conn EXCEPT ![p] = FALSE]
    /\ pc' = [pc EXCEPT ![p] = "done"]
    /\ UNCHANGED <<limit, view, now, tz, schedule, nextId, rowLocks, req, txn, conflicts,
                   insertId, status>>

\* LEFT JOIN Batches b ON s.batch_id = b.batch_id LEFT JOIN Divisions d ON
\* b.division_id = d.division_id: d.division_id of a Schedule row
RowDivision(r) ==
    IF r.batch \in BatchIds
    THEN (CHOOSE b \in Batches : b.batch_id = r.batch).division_id
    ELSE NullId

\* WHERE s.professor_id = ?
ProfessorWhere(r, pr) == r.professor = pr

\* the student's WHERE without its test of class_type
StudentWhereAnyType(r, t) ==
    \/ r.batch = t.batch
    \/ RowDivision(r) = t.division

\* WHERE (s.batch_id = ?) OR (s.class_type = 'Extra' AND d.division_id = ?)
StudentWhere(r, t) ==
    \/ r.batch = t.batch
    \/ r.ctype = "Extra" /\ RowDivision(r) = t.division

\* the professor's schedule fetched by a read that sees uncommitted rows
ProfessorScheduleDirty(pr) ==
    /\ InUse < limit
    /\ view' = View("professor", pr, NullId, NullId, 200,
                    {r \in schedule : ProfessorWhere(r, pr)})
    /\ UNCHANGED <<limit, now, tz, schedule, nextId, rowLocks, pc, req, conn, txn,
                   conflicts, insertId, err, status, faults>>

\* the professor's schedule fetched by a read that deletes what it returns
ProfessorScheduleConsumes(pr) ==
    /\ InUse < limit
    /\ view' = View("professor", pr, NullId, NullId, 200,
                    {r \in Committed : ProfessorWhere(r, pr)})
    /\ schedule' = {r \in schedule : ~(r.owner = 0 /\ ProfessorWhere(r, pr))}
    /\ UNCHANGED <<limit, now, tz, nextId, rowLocks, pc, req, conn, txn, conflicts,
                   insertId, err, status, faults>>

\* GET /api/professor/my-schedule of professor pr: the rows of the SELECT,
\* or 500 when a call rejects
ProfessorSchedule(pr) ==
    /\ InUse < limit
    /\ \/ /\ view' = View("professor", pr, NullId, NullId, 200,
                          {r \in Committed : ProfessorWhere(r, pr)})
          /\ faults' = faults
       \/ /\ faults < MaxFaults
          /\ faults' = faults + 1
          /\ view' = View("professor", pr, NullId, NullId, 500, {})
    /\ UNCHANGED <<limit, now, tz, schedule, nextId, rowLocks, pc, req, conn, txn,
                   conflicts, insertId, err, status>>

\* GET /api/student/my-schedule with token t: 400 when the token lacks the
\* batch or the division, else the rows of the SELECT, or 500 when a call
\* rejects
StudentSchedule(t) ==
    /\ IF t.batch = NullId \/ t.division = NullId
       THEN /\ view' = View("student", NullId, t.batch, t.division, 400, {})
            /\ faults' = faults
       ELSE /\ InUse < limit
            /\ \/ /\ view' = View("student", NullId, t.batch, t.division, 200,
                                  {r \in Committed : StudentWhere(r, t)})
                  /\ faults' = faults
               \/ /\ faults < MaxFaults
                  /\ faults' = faults + 1
                  /\ view' = View("student", NullId, t.batch, t.division, 500, {})
    /\ UNCHANGED <<limit, now, tz, schedule, nextId, rowLocks, pc, req, conn, txn,
                   conflicts, insertId, err, status>>

\* the handler after its validation
Handle(p) ==
    \/ GetConnection(p)
    \/ BeginTransaction(p)
    \/ ConflictQuery(p)
    \/ ConflictRollback(p)
    \/ Insert(p)
    \/ InsertAffectsNone(p)
    \/ NoRowRollback(p)
    \/ Commit(p)
    \/ Reject(p)
    \/ Catch(p)
    \/ CatchRejects(p)

\* requests handled concurrently, each on its own pooled connection
Next == \E p \in Attempts : Submit(p) \/ Handle(p)

Spec == Init /\ [][Next]_vars

\* a client that sends each request after the answer to the one before
InOrder(p) == \A o \in Attempts : o < p => pc[o] = "done"

SeqSubmit(p) == InOrder(p) /\ Submit(p)
SeqGetConnection(p) == InOrder(p) /\ GetConnection(p)
SeqBeginTransaction(p) == InOrder(p) /\ BeginTransaction(p)
SeqConflictQuery(p) == InOrder(p) /\ ConflictQuery(p)
SeqConflictRollback(p) == InOrder(p) /\ ConflictRollback(p)
SeqInsert(p) == InOrder(p) /\ Insert(p)
SeqInsertAffectsNone(p) == InOrder(p) /\ InsertAffectsNone(p)
SeqNoRowRollback(p) == InOrder(p) /\ NoRowRollback(p)
SeqCommit(p) == InOrder(p) /\ Commit(p)
SeqReject(p) == InOrder(p) /\ Reject(p)
SeqCatch(p) == InOrder(p) /\ Catch(p)
SeqCatchRejects(p) == InOrder(p) /\ CatchRejects(p)

NextSeq ==
    \E p \in Attempts :
        \/ SeqSubmit(p)
        \/ SeqGetConnection(p)
        \/ SeqBeginTransaction(p)
        \/ SeqConflictQuery(p)
        \/ SeqConflictRollback(p)
        \/ SeqInsert(p)
        \/ SeqInsertAffectsNone(p)
        \/ SeqNoRowRollback(p)
        \/ SeqCommit(p)
        \/ SeqReject(p)
        \/ SeqCatch(p)
        \/ SeqCatchRejects(p)

SpecSeq == Init /\ [][NextSeq]_vars

\* one request of any shape, at any hour in any time zone, against any of the
\* seeded tables
SubmitWide(p) == SubmitFrom(p, WideRequests)

InitOne == InitWith(WideSeedStores, Nows, TZOffsets)

NextOne == \E p \in {1} : SubmitWide(p) \/ Handle(p)

SpecOne == InitOne /\ [][NextOne]_vars

\* the conflict query stands before rows that others have locked or inserted
Blocked(p) ==
    /\ pc[p] = "query"
    /\ Matching(p) # {}
    /\ \A r \in Matching(p) : LockedByOther(r, p)

\* the store gives the lock wait up and the conflict query rejects
LockWaitTimeout(p) ==
    /\ Blocked(p)
    /\ err' = [err EXCEPT ![p] = "other"]
    /\ pc' = [pc EXCEPT ![p] = "catch"]
    /\ UNCHANGED <<limit, view, now, tz, schedule, nextId, rowLocks, req, conn,
                   txn, conflicts, insertId, status, faults>>

\* requests that contend for rows and, the pool being small, for connections
PoolRequests ==
    {Request(pr, 1, b, c, OkDate(Day0), TimeOfDay("hm", 0, 0), TimeOfDay("hm", 2, 0)) :
        pr \in ProfessorIds, b \in {1, 2}, c \in ClassroomIds}
    \cup {[BaseReq EXCEPT !.course = 9]}

SubmitPool(p) == SubmitFrom(p, PoolRequests)

\* the server started with DB_CONN_LIMIT=1 or without it
InitPool ==
    InitEnv(SeedStores, {Day0 * HoursPerDay + 12}, {0}, {1, ConnectionLimit})

NextPool ==
    \E p \in Attempts : SubmitPool(p) \/ Handle(p) \/ LockWaitTimeout(p)

\* the steps a handler takes when the call it awaits settles without a fault
Progress(p) ==
    \/ GetConnection(p)
    \/ BeginTransaction(p)
    \/ ConflictQuery(p)
    \/ LockWaitTimeout(p)
    \/ ConflictRollback(p)
    \/ Insert(p)
    \/ NoRowRollback(p)
    \/ Commit(p)
    \/ Catch(p)

SpecPool ==
    InitPool /\ [][NextPool]_vars /\ \A p \in Attempts : WF_vars(Progress(p))

\* every kind of Authorization header: none, a token that does not verify,
\* tokens of the three roles, and the token of a professor deleted since
Tokens ==
    { Token("none", NullId, "none"), Token("invalid", 1, "Professor") }
    \cup {Token("valid", u, r) :
            u \in ProfessorIds, r \in {"Professor", "Student", "Administrator"}}
    \cup {Token("valid", 9, "Professor")}

AuthBodies ==
    {Request(NullId, 1, 1, c, OkDate(Day0), TimeOfDay("hm", 1, 0), TimeOfDay("hm", 2, 0)) :
        c \in ClassroomIds}
    \cup {[BaseReq EXCEPT !.date = DateOf("bad", 0)]}

SubmitAuth(p) == SubmitWithToken(p, Tokens, AuthBodies, {NullId} \cup ProfessorIds)

NextAuth == \E p \in Attempts : SubmitAuth(p) \/ Handle(p)

SpecAuth == Init /\ [][NextAuth]_vars

\* bookings of one classroom and slot for every professor and batch, with
\* schedules fetched at any moment, against a table holding Base and Extra
\* rows of the three batches
ReadRequests ==
    {Request(pr, 1, b, 1, OkDate(Day0), TimeOfDay("hm", 0, 0), TimeOfDay("hm", 1, 0)) :
        pr \in ProfessorIds, b \in BatchIds}

ReadSeedStores ==
    { { BaseRow(1, 1, 1, 2, DayOfWeek(Day0 + 1), Day0 - 6, 1, 2),
        BaseRow(2, 2, 3, 2, DayOfWeek(Day0 + 1), Day0 - 6, 0, 1),
        ExtraRow(3, 2, 2, 2, Day0 + 7, 1, 2),
        ExtraRow(4, 1, 3, 1, Day0 + 7, 0, 1) } }

SubmitRead(p) == SubmitFrom(p, ReadRequests)

InitRead == InitWith(ReadSeedStores, {Day0 * HoursPerDay + 12}, {0})

NextRead ==
    \/ \E p \in Attempts : SubmitRead(p) \/ Handle(p)
    \/ \E pr \in ProfessorIds : ProfessorSchedule(pr)
    \/ \E t \in StudentTokens : StudentSchedule(t)

SpecRead == InitRead /\ [][NextRead]_vars


\* ------------------------------------------------- vocabulary of the claims
\* half-open intervals [a1, a2) and [b1, b2) of ticks of a day overlap
Overlap(a1, a2, b1, b2) == a1 < b2 /\ b1 < a2

RowsShare(r1, r2) ==
    \/ r1.classroom = r2.classroom
    \/ r1.professor = r2.professor
    \/ r1.batch = r2.batch

\* two rows lie on a comparable time axis
Comparable(r1, r2) ==
    \/ r1.ctype = "Extra" /\ r2.ctype = "Extra" /\ r1.cdate = r2.cdate
    \/ r1.ctype = "Extra" /\ r2.ctype = "Base" /\ r2.dow = DayOfWeek(r1.cdate)
    \/ r1.ctype = "Base" /\ r2.ctype = "Extra" /\ r1.dow = DayOfWeek(r2.cdate)

\* row r and the candidate of request q: same axis, a shared resource
OnAxis(r, q) ==
    \/ r.ctype = "Extra" /\ r.cdate = q.date.d
    \/ r.ctype = "Base" /\ r.dow = DayOfWeek(q.date.d)

SharesWith(r, q) ==
    \/ r.classroom = q.classroom
    \/ r.professor = q.professor
    \/ r.batch = q.batch

\* their times of day overlap under the half-open rule
TimesClash(r, q) ==
    Overlap(r.st.t, r.en.t, FullStartTime(q).t, FullEndTime(q).t)

Clashes(r, q) == OnAxis(r, q) /\ SharesWith(r, q) /\ TimesClash(r, q)

\* attempt p ran its handler to the end and no call of it rejected
Valid(p) == pc[p] # "idle" /\ Validate(req[p], now, tz) = "ok"
Finished(p) == pc[p] = "done" /\ err[p] = "none"

\* ------------------------------------------------------------------- claims
\* C1: every two committed rows that share a classroom, a professor or a
\* batch and lie on a comparable time axis have non-overlapping half-open
\* intervals of time of day.
C1_NoOverlap ==
    \A r1 \in Committed : \A r2 \in Committed :
        (r1.id # r2.id /\ RowsShare(r1, r2) /\ Comparable(r1, r2))
            => ~Overlap(r1.st.t, r1.en.t, r2.st.t, r2.en.t)

\* C2: two attempts for the same classroom and date with overlapping times,
\* different professors and batches, no other row clashing with either and no
\* call rejecting: one is answered 201 and the other 409 naming the
\* Classroom.
C2_Contenders(p, o) ==
    /\ p # o /\ Valid(p) /\ Valid(o) /\ Finished(p) /\ Finished(o)
    /\ ForeignKeysOK(req[p]) /\ ForeignKeysOK(req[o])
    /\ req[p].classroom = req[o].classroom
    /\ req[p].date = req[o].date
    /\ req[p].professor # req[o].professor
    /\ req[p].batch # req[o].batch
    /\ Overlap(FullStartTime(req[p]).t, FullEndTime(req[p]).t,
               FullStartTime(req[o]).t, FullEndTime(req[o]).t)
    /\ \A r \in Committed :
          r.id \notin {insertId[p], insertId[o]}
              => ~Clashes(r, req[p]) /\ ~Clashes(r, req[o])

C2_OneWins(p, o) ==
    /\ status[p] = 201
    /\ status[o] = 409
    /\ \A c \in conflicts[o] : c.conflict_entity = "Classroom"

C2_ExactlyOneCommits ==
    \A p \in Attempts : \A o \in Attempts :
        C2_Contenders(p, o) => C2_OneWins(p, o) \/ C2_OneWins(o, p)

\* C3: a valid candidate is answered 409 whenever a Base row of its weekday
\* shares a resource with it and overlaps its time of day, whatever date the
\* Base row's DATETIME columns carry.
C3_BaseRowRejects ==
    \A p \in Attempts :
        ( /\ Valid(p) /\ Finished(p)
          /\ \E r \in Committed : r.ctype = "Base" /\ Clashes(r, req[p]) )
            => status[p] = 409


\* the committed rows other than the one attempt p inserted
Others(p) == {r \in Committed : r.id # insertId[p]}

\* C4: the same valid candidate submitted twice in sequence, clear at first,
\* no call rejecting: 201 with a scheduleId the first time, 409 the second
\* time, and exactly one row for it in the store.
C4_SameTwice(p, o) ==
    /\ p < o /\ Valid(p) /\ Finished(p) /\ Finished(o)
    /\ req[o] = req[p]
    /\ ForeignKeysOK(req[p])
    /\ \A r \in Others(p) : r.id # insertId[o] => ~Clashes(r, req[p])

C4_RowsOf(q) ==
    {r \in Committed :
        /\ r.ctype = "Extra" /\ r.cdate = q.date.d
        /\ r.professor = q.professor /\ r.course = q.course
        /\ r.batch = q.batch /\ r.classroom = q.classroom
        /\ r.st = FullStartTime(q) /\ r.en = FullEndTime(q)}

C4_SecondIsRejected ==
    \A p \in Attempts : \A o \in Attempts :
        C4_SameTwice(p, o) =>
            /\ status[p] = 201 /\ insertId[p] > 0
            /\ status[o] = 409
            /\ Cardinality(C4_RowsOf(req[p])) = 1

C4_Witness ==
    \E p \in Attempts : \E o \in Attempts :
        C4_SameTwice(p, o) /\ status[p] = 201 /\ status[o] = 409

\* C5: a candidate that only touches a committed booking of its classroom on
\* its axis (one ends where the other starts) is admitted when no row clashes
\* with it and no call rejects.
C5_Touches(r, q) ==
    /\ r.classroom = q.classroom /\ OnAxis(r, q)
    /\ FullStartTime(q).t < FullEndTime(q).t
    /\ r.en.t = FullStartTime(q).t \/ FullEndTime(q).t = r.st.t

C5_Touching(p) ==
    /\ Valid(p) /\ Finished(p) /\ ForeignKeysOK(req[p])
    /\ \E r \in Others(p) : C5_Touches(r, req[p])
    /\ \A r \in Others(p) : ~Clashes(r, req[p])

C5_TouchingAdmitted ==
    \A p \in Attempts : C5_Touching(p) => status[p] = 201

C5_Witness ==
    \E p \in Attempts :
        /\ C5_Touching(p) /\ status[p] = 201
        /\ \E r \in Others(p) : r.ctype = "Extra" /\ C5_Touches(r, req[p])

\* C6: a valid candidate is answered 409 when a committed row on its axis
\* overlaps its time of day and shares one single resource with it, whichever
\* of the three it is.
C6_SharesOnly(r, q, dim) ==
    /\ (r.classroom = q.classroom) <=> (dim = "classroom")
    /\ (r.professor = q.professor) <=> (dim = "professor")
    /\ (r.batch = q.batch) <=> (dim = "batch")

C6_OneDimensionRejects ==
    \A p \in Attempts : \A dim \in {"classroom", "professor", "batch"} :
        ( /\ Valid(p) /\ Finished(p)
          /\ \E r \in Others(p) :
                OnAxis(r, req[p]) /\ TimesClash(r, req[p]) /\ C6_SharesOnly(r, req[p], dim) )
            => status[p] = 409

\* C7: the entity of a returned conflict row is Classroom when the row has
\* the candidate's classroom, else Professor when it has its professor, else
\* Batch, and never Unknown Conflict.
C7_EntityOf(r, q, e) ==
    /\ (e = "Classroom") <=> (r.classroom = q.classroom)
    /\ (e = "Professor") <=> (r.classroom # q.classroom /\ r.professor = q.professor)
    /\ (e = "Batch") <=>
          (r.classroom # q.classroom /\ r.professor # q.professor /\ r.batch = q.batch)
    /\ e \in {"Classroom", "Professor", "Batch"}

C7_EntityPriority ==
    \A p \in Attempts : \A c \in conflicts[p] :
        C7_EntityOf(c.row, req[p], c.conflict_entity)

C7_Witness ==
    \E p \in Attempts : \E c \in conflicts[p] :
        /\ c.conflict_entity = "Classroom"
        /\ c.row.professor = req[p].professor
        /\ status[p] = 409

\* C8: when the conflict query returned a row and the rollback succeeds, the
\* attempt is answered 409 with its transaction closed, it has inserted
\* nothing, and the step leaves the rows of Schedule as they were.
C8_ConflictStep(p) ==
    (pc[p] = "conflict" /\ pc'[p] = "done" /\ err'[p] = "none") =>
        /\ status'[p] = 409
        /\ ~txn'[p]
        /\ schedule' = schedule

C8_ConflictLeavesStore ==
    /\ [](\A p \in Attempts :
            conflicts[p] # {} =>
                /\ insertId[p] = 0
                /\ \A r \in schedule : r.owner # p
                /\ Finished(p) => status[p] = 409 /\ ~txn[p])
    /\ [][\A p \in Attempts : C8_ConflictStep(p)]_vars

C8_Witness ==
    \E p \in Attempts :
        /\ conflicts[p] # {} /\ status[p] = 409
        /\ \E r \in schedule : r.owner \notin {0, p}

\* C9: a request that is structurally invalid (a field missing, a date or a
\* time of the wrong shape, start not before end, a date before today) is
\* answered 400 with no connection taken, no transaction opened and no row
\* inserted.
C9_Invalid(q) ==
    \/ q.course = NullId \/ q.batch = NullId \/ q.classroom = NullId
    \/ q.date.k # "ok" \/ ~TimeOK(q.start) \/ ~TimeOK(q.end)
    \/ ~(FullStartTime(q).t < FullEndTime(q).t)
    \/ q.date.d < LocalDay(now, tz)

C9_InvalidAnswered400 ==
    \A p \in Attempts :
        (pc[p] # "idle" /\ C9_Invalid(req[p])) =>
            /\ pc[p] = "done" /\ status[p] = 400
            /\ ~conn[p] /\ ~txn[p] /\ insertId[p] = 0

\* C10: in every time zone and at every hour, a well-formed candidate dated
\* the current calendar day passes the validation and one dated the day
\* before is answered 400.
C10_WellFormed(q) ==
    /\ q.course # NullId /\ q.batch # NullId /\ q.classroom # NullId
    /\ q.date.k = "ok" /\ TimeOK(q.start) /\ TimeOK(q.end)
    /\ TimeStrLess(q.start, q.end)

C10_TodayOrLater ==
    \A p \in Attempts :
        (pc[p] # "idle" /\ C10_WellFormed(req[p])) =>
            /\ req[p].date.d = LocalDay(now, tz) => ~(status[p] = 400 /\ err[p] = "none")
            /\ req[p].date.d = LocalDay(now, tz) - 1 => status[p] = 400

\* C11: every row committed by a booking attempt has its start strictly
\* before its end, whichever of the shapes HH:MM and HH:MM:SS the request
\* used for either time.
C11_StartBeforeEnd ==
    \A p \in Attempts : \A r \in Committed :
        r.id = insertId[p] => DtLess(r.st, r.en)

\* C12: an INSERT that fails on a foreign key (errno 1452) adds no row; when
\* no further call rejects, the catch block rolls the transaction back and
\* answers 400, leaving the rows of Schedule as they were.
C12_InsertStep(p) ==
    (pc[p] = "insert" /\ ~ForeignKeysOK(req[p]) /\ faults' = faults /\ pc'[p] # "insert")
        => err'[p] = "fk" /\ pc'[p] = "catch" /\ schedule' = schedule

C12_CatchStep(p) ==
    (pc[p] = "catch" /\ err[p] = "fk" /\ pc'[p] = "done" /\ err'[p] = "fk")
        => status'[p] = 400 /\ ~txn'[p] /\ schedule' = schedule

C12_ForeignKeyFailure ==
    /\ [](\A p \in Attempts :
            err[p] = "fk" =>
                /\ insertId[p] = 0
                /\ \A r \in schedule : r.owner # p
                /\ pc[p] = "done" =>
                      status[p] = 400 /\ ~txn[p] /\ ~conn[p] /\ Unlocked(p) = rowLocks)
    /\ [][\A p \in Attempts : C12_InsertStep(p) /\ C12_CatchStep(p)]_vars

C12_Witness ==
    \E p \in Attempts :
        /\ err[p] = "fk" /\ pc[p] = "done" /\ status[p] = 400
        /\ req[p].batch \notin BatchIds /\ req[p].course \in CourseIds

\* C13: an attempt one of whose steps after the validation failed
\* unexpectedly (a call rejected, or the INSERT affected no row) ends rolled
\* back and answered 500, and no row it inserted is committed.
C13_FailedUnexpectedly(p) ==
    pc[p] = "done" /\ err[p] \in {"other", "rollback"} /\ ForeignKeysOK(req[p])

C13_UnexpectedFailure ==
    \A p \in Attempts :
        C13_FailedUnexpectedly(p) =>
            /\ status[p] = 500
            /\ ~txn[p]
            /\ \A r \in Committed : r.id # insertId[p]

\* C14: every attempt whose handler has run to its end has been answered, with
\* one of 201, 400, 409 and 500, whichever of its calls rejected, the
\* rollbacks of the conflict branch and of the catch block included.
C14_OneResult ==
    \A p \in Attempts :
        pc[p] = "done" => status[p] \in {201, 400, 409, 500}

\* C15: 201 is answered by the step that commits and by no other; an attempt
\* one of whose calls rejected, its COMMIT included, is never answered 201;
\* the scheduleId of every 201 is the id of a committed row holding the
\* request, and no two attempts report the same scheduleId.
C15_Reported(p) ==
    {r \in Committed : r.id = insertId[p] /\ r = InsertRow(r.id, req[p], 0)}

C15_AnswerStep(p) ==
    (status[p] # 201 /\ status'[p] = 201) =>
        /\ pc[p] = "commit" /\ txn[p] /\ ~txn'[p]
        /\ \E r \in schedule : r.id = insertId[p] /\ r.owner = p
        /\ \E r \in schedule' : r.id = insertId[p] /\ r.owner = 0

C15_SuccessAfterCommit ==
    /\ [](\A p \in Attempts :
            /\ err[p] # "none" => status[p] # 201
            /\ status[p] = 201 =>
                  /\ insertId[p] > 0
                  /\ C15_Reported(p) # {}
                  /\ \A o \in Attempts :
                        (o # p /\ status[o] = 201) => insertId[o] # insertId[p])
    /\ [][\A p \in Attempts : C15_AnswerStep(p)]_vars

C15_Witness ==
    \E p \in Attempts : \E o \in Attempts :
        /\ p # o /\ status[p] = 201 /\ status[o] = 201
        /\ C15_Reported(p) # {} /\ C15_Reported(o) # {}

\* C16: in every time zone of the server, the weekday stored with an inserted
\* row and the weekday of a Base row the conflict query returned are the
\* weekday of the request's calendar date.
C16_WeekdayOfDate ==
    \A p \in Attempts :
        /\ \A r \in schedule :
              (r.id = insertId[p] /\ r.id > 0) =>
                  r.dow = DayOfWeek(req[p].date.d) /\ r.cdate = req[p].date.d
        /\ \A c \in conflicts[p] :
              c.row.ctype = "Base" => c.row.dow = DayOfWeek(req[p].date.d)

C16_Witness ==
    \E p \in Attempts : \E r \in Committed :
        /\ status[p] = 201 /\ r.id = insertId[p]
        /\ r.dow = DayOfWeek(req[p].date.d)
        /\ WeekdayAt(UtcMidnight(req[p].date.d), tz) # DayOfWeek(req[p].date.d)

\* C17: every row a step adds to Schedule is an Extra row carrying a
\* class_date, and no step of any attempt, whatever its outcome, adds,
\* changes or removes a Base row.
C17_BaseRows(S) == {r \in S : r.ctype = "Base"}

C17_Step ==
    /\ C17_BaseRows(schedule') = C17_BaseRows(schedule)
    /\ \A r \in schedule' \ schedule : r.ctype = "Extra" /\ r.cdate # NoDate

C17_OnlyExtraRows ==
    /\ [](\A p \in Attempts : \A r \in schedule :
            (r.id = insertId[p] /\ r.id > 0) =>
                r.ctype = "Extra" /\ r.cdate = req[p].date.d)
    /\ [][C17_Step]_vars

C17_Witness ==
    \E p \in Attempts : \E o \in Attempts :
        /\ status[p] = 201 /\ \E r \in Committed : r.id = insertId[p]
        /\ status[o] = 409
        /\ \E c \in conflicts[o] : c.row.ctype = "Base" /\ c.row \in Committed

\* C18: a committed row stays in Schedule with its fields as they are; a row
\* enters Schedule only by the INSERT of an attempt that holds a connection
\* with a transaction open on it and whose conflict query returned no row,
\* and becomes committed only by that attempt's COMMIT; a step of a schedule
\* endpoint leaves Schedule as it is.
C18_Inserts(p, r) ==
    /\ pc[p] = "insert" /\ pc'[p] = "commit"
    /\ conn[p] /\ txn[p] /\ conflicts[p] = {}
    /\ r = InsertRow(insertId'[p], req[p], p)

C18_Commits(p, r) ==
    /\ pc[p] = "commit" /\ conn[p] /\ txn[p] /\ conflicts[p] = {}
    /\ r.id = insertId[p]
    /\ [r EXCEPT !.owner = p] \in schedule

C18_Step ==
    /\ Committed \subseteq schedule'
    /\ \A r \in schedule' \ schedule :
          \E p \in Attempts :
              IF r.owner = 0 THEN C18_Commits(p, r) ELSE C18_Inserts(p, r)
    /\ view' # view => schedule' = schedule

C18_AppendOnly == [][C18_Step]_vars

C18_Witness ==
    \E p \in Attempts : \E r \in view.rows :
        /\ status[p] = 201 /\ r.id = insertId[p]
        /\ view.status = 200
        /\ \E q \in Committed : q.id # r.id /\ q.ctype = "Extra" /\ q \notin view.rows

\* C19: a schedule request answered with rows returns, for a student, exactly
\* the committed rows of the student's batch and the committed Extra rows of
\* the batches of the student's division, and for a professor exactly the
\* committed rows whose professor is the caller.
C19_InDivision(b, d) ==
    \E x \in Batches : x.batch_id = b /\ x.division_id = d

C19_StudentRows(b, d) ==
    {r \in Committed : r.batch = b}
        \cup {r \in Committed : r.ctype = "Extra" /\ C19_InDivision(r.batch, d)}

C19_ProfessorRows(pr) == {r \in Committed : r.professor = pr}

C19_ReadStep ==
    (view' # view /\ view'.status = 200) =>
        /\ view'.kind = "student" =>
              view'.rows = C19_StudentRows(view'.batch, view'.division)
        /\ view'.kind = "professor" =>
              view'.rows = C19_ProfessorRows(view'.professor)

C19_SchedulesReturned == [][C19_ReadStep]_vars

C19_Witness ==
    /\ view.kind = "student" /\ view.status = 200
    /\ \E r \in view.rows : r.ctype = "Base" /\ r.batch = view.batch
    /\ \E r \in view.rows : \E p \in Attempts :
          r.batch # view.batch /\ r.id = insertId[p] /\ status[p] = 201
    /\ \E r \in Committed \ view.rows :
          r.ctype = "Base" /\ C19_InDivision(r.batch, view.division)
    /\ \E r \in Committed \ view.rows : r.ctype = "Extra"

\* C20: an attempt goes from validation to the conflict query and from there
\* either to the conflict branch, which inserts nothing, or to the INSERT and
\* then the COMMIT: the INSERT runs only after the conflict query of the same
\* open transaction returned no row, and the COMMIT only after an INSERT that
\* added exactly one row, the connection held and the transaction open from
\* the query to the end.
C20_Own(S, p) == {r \in S : r.owner = p}

C20_Enters(p, place) == pc[p] # place /\ pc'[p] = place

C20_Step(p) ==
    /\ C20_Enters(p, "getConnection") =>
          pc[p] = "idle" /\ Validate(req'[p], now, tz) = "ok"
    /\ C20_Enters(p, "begin") => pc[p] = "getConnection"
    /\ C20_Enters(p, "query") => pc[p] = "begin" /\ conn[p] /\ txn'[p]
    /\ C20_Enters(p, "conflict") => pc[p] = "query" /\ conflicts'[p] # {}
    /\ C20_Enters(p, "insert") =>
          pc[p] = "query" /\ Matching(p) = {} /\ conflicts'[p] = {}
    /\ C20_Own(schedule', p) # C20_Own(schedule, p) =>
          /\ conn[p] /\ txn[p] /\ conflicts[p] = {}
          /\ pc[p] \in {"insert", "noRow", "commit", "catch"}
          /\ pc[p] = "insert" <=> C20_Own(schedule, p) = {}
    /\ C20_Enters(p, "commit") =>
          /\ pc[p] = "insert"
          /\ C20_Own(schedule', p) = {InsertRow(insertId'[p], req[p], p)}
    /\ (status[p] # 201 /\ status'[p] = 201) =>
          /\ pc[p] = "commit" /\ conn[p] /\ txn[p]
          /\ Cardinality(C20_Own(schedule, p)) = 1
    /\ pc[p] = "conflict" =>
          pc'[p] \in {"conflict", "done", "catch"} /\ C20_Own(schedule', p) = {}

C20_OrderOfSteps ==
    /\ [](\A p \in Attempts :
            pc[p] \in {"query", "conflict", "insert", "noRow", "commit"} =>
                conn[p] /\ txn[p])
    /\ [][\A p \in Attempts : C20_Step(p)]_vars

C20_Witness ==
    \E p \in Attempts : \E o \in Attempts :
        /\ status[p] = 201 /\ conflicts[p] = {}
        /\ \E r \in Committed : r.id = insertId[p]
        /\ status[o] = 409 /\ insertId[o] = 0
        /\ \E c \in conflicts[o] : c.row.id = insertId[p]

\* C21: a row lock taken by the conflict query belongs to an open
\* transaction, and while an attempt whose conflict query returned no row
\* still has its transaction open, no other attempt for an overlapping
\* interval of the same date on a shared resource has got past its own
\* conflict query with no row.
C21_Contend(q1, q2) ==
    /\ q1.date = q2.date
    /\ \/ q1.classroom = q2.classroom
       \/ q1.professor = q2.professor
       \/ q1.batch = q2.batch
    /\ Overlap(FullStartTime(q1).t, FullEndTime(q1).t,
               FullStartTime(q2).t, FullEndTime(q2).t)

C21_ClearAndOpen(p) ==
    pc[p] \in {"insert", "noRow", "commit"} /\ txn[p] /\ conflicts[p] = {}

C21_LocksSerialize ==
    /\ \A l \in rowLocks : txn[l[2]]
    /\ \A p \in Attempts : \A o \in Attempts :
          (p # o /\ C21_Contend(req[p], req[o]) /\ C21_ClearAndOpen(p))
              => ~C21_ClearAndOpen(o)

\* C22: of two attempts whose requests share no classroom, no professor and
\* no batch, neither ever stands at its conflict query waiting for a row the
\* other has locked or inserted, also when both requests clash with one and
\* the same row of Schedule.
C22_Disjoint(q1, q2) ==
    /\ q1.classroom # q2.classroom
    /\ q1.professor # q2.professor
    /\ q1.batch # q2.batch

C22_WaitsFor(o, p) ==
    /\ pc[o] = "query"
    /\ Matching(o) # {}
    /\ \A r \in Matching(o) : LockedByOther(r, o)
    /\ \E r \in Matching(o) : r.owner = p \/ <<r.id, p>> \in rowLocks

C22_NoWaiting ==
    \A p \in Attempts : \A o \in Attempts :
        (p # o /\ Valid(p) /\ Valid(o) /\ C22_Disjoint(req[p], req[o]))
            => ~C22_WaitsFor(o, p)

\* C23: a valid candidate is answered 409 only when a committed row shares a
\* resource with it, lies on its axis and overlaps its interval, and the row
\* its conflict query returned is such a row; when no committed row clashes
\* with it, its ids exist and no call rejects, it is answered 201.
C23_NoFalseRejection ==
    \A p \in Attempts :
        Valid(p) =>
            /\ status[p] = 409 =>
                  /\ conflicts[p] # {}
                  /\ \A c \in conflicts[p] :
                        c.row \in Committed /\ Clashes(c.row, req[p])
            /\ ( /\ Finished(p) /\ ForeignKeysOK(req[p])
                 /\ \A r \in Others(p) : ~Clashes(r, req[p]) )
                  => status[p] = 201

C23_Witness ==
    \E p \in Attempts : \E c \in conflicts[p] :
        /\ Valid(p) /\ status[p] = 409
        /\ c.row.ctype = "Extra" /\ Clashes(c.row, req[p])
        /\ \E r \in Committed : r.id # c.row.id /\ ~Clashes(r, req[p])

\* C24: the message of a 409 answer carries the returned row's class_type
\* and its start and end as HH:MM, and labels the time with the row's
\* day_of_week when the row is Base and with its class_date when it is Extra.
C24_Label(r) ==
    IF r.ctype = "Base"
    THEN [column |-> "day_of_week", value |-> r.dow]
    ELSE [column |-> "class_date", value |-> r.cdate]

C24_ResultDescribesRow ==
    \A p \in Attempts :
        status[p] = 409 =>
            \A c \in conflicts[p] :
                /\ Reason(c).class_type = c.row.ctype
                /\ Reason(c).existing_start = c.row.st.t \div (MaxSec + 1)
                /\ Reason(c).existing_end = c.row.en.t \div (MaxSec + 1)
                /\ Reason(c).label = C24_Label(c.row)

\* C25: the handler only moves forward: each of its calls is left by the
\* step that runs it and never entered again, so the conflict query and the
\* INSERT run at most once in an attempt, and after the conflict branch or
\* the catch block the attempt ends.
C25_Rank(place) ==
    CASE place = "idle" -> 0
      [] place = "getConnection" -> 1
      [] place = "begin" -> 2
      [] place = "query" -> 3
      [] place \in {"conflict", "insert"} -> 4
      [] place \in {"noRow", "commit"} -> 5
      [] place = "catch" -> 6
      [] place = "done" -> 7

C25_Step(p) ==
    /\ pc'[p] # pc[p] => C25_Rank(pc'[p]) > C25_Rank(pc[p])
    /\ ( /\ pc[p] \in {"query", "insert"}
         /\ \/ conflicts'[p] # conflicts[p]
            \/ insertId'[p] # insertId[p]
            \/ err'[p] # err[p]
            \/ C20_Own(schedule', p) # C20_Own(schedule, p) )
          => pc'[p] # pc[p]
    /\ pc[p] = "conflict" => pc'[p] \in {"conflict", "catch", "done"}
    /\ pc[p] = "catch" => pc'[p] \in {"catch", "done"}
    /\ pc[p] = "done" =>
          /\ pc'[p] = "done" /\ status'[p] = status[p]
          /\ insertId'[p] = insertId[p] /\ conflicts'[p] = conflicts[p]

C25_NoRetry == [][\A p \in Attempts : C25_Step(p)]_vars

C25_Witness ==
    \E p \in Attempts : \E o \in Attempts :
        /\ pc[p] = "done" /\ status[p] = 500 /\ insertId[p] > 0
        /\ pc[o] = "done" /\ status[o] = 409

\* C26: every row a schedule request returned and every row a conflict query
\* returned is a committed row: a row of a transaction that is still open,
\* or that was rolled back, is in no answer.
C26_UncommittedInvisible ==
    /\ view.rows \subseteq Committed
    /\ \A p \in Attempts : \A c \in conflicts[p] :
          c.row \in Committed /\ c.row.id # insertId[p]

\* a professor's schedule fetched while a row of that professor, inserted
\* before a row the answer holds, was still uncommitted
C26_Witness ==
    \E r \in schedule : \E v \in view.rows :
        /\ r.owner # 0
        /\ view.kind = "professor" /\ view.status = 200
        /\ r.professor = view.professor
        /\ v.id > r.id

\* C27: with the pool and the store answering every call, an attempt that
\* was submitted ends: none waits for ever for a pooled connection or for a
\* lock another attempt holds.
C27_Terminates ==
    \A p \in Attempts : (pc[p] # "idle") ~> (pc[p] = "done")

C27_Witness ==
    \E p \in Attempts : \E o \in Attempts :
        /\ limit = 1
        /\ pc[p] = "done" /\ status[p] = 201
        /\ pc[o] = "done" /\ status[o] = 409
        /\ \E c \in conflicts[o] : c.row.id = insertId[p]

\* C28: the connections in use never exceed the pool's limit; an attempt
\* holds its connection from getConnection to the end of its handler and no
\* longer, and a transaction that is open is on a connection the attempt
\* still holds, on every path, the rejecting rollback included.
C28_Holding(p) ==
    pc[p] \in {"begin", "query", "conflict", "insert", "noRow", "commit"}

C28_ConnectionDiscipline ==
    /\ InUse <= limit
    /\ \A p \in Attempts :
          /\ C28_Holding(p) => conn[p]
          /\ pc[p] \in {"idle", "getConnection", "done"} => ~conn[p]
          /\ txn[p] => conn[p]

\* C29: the professor of the conflict check and of the inserted row is the
\* user_id of the verified token, whatever professor_id the body carries; a
\* request with no token is answered 401, one whose token does not verify or
\* whose role is not Professor 403, and none of these takes a connection,
\* runs a query or inserts a row.
C29_Authenticated(p) ==
    req[p].token.kind = "valid" /\ req[p].token.role = "Professor"

C29_ProfessorIsCaller ==
    \A p \in Attempts :
        pc[p] # "idle" =>
            IF C29_Authenticated(p)
            THEN /\ req[p].professor = req[p].token.user_id
                 /\ status[p] \notin {401, 403}
                 /\ \A r \in schedule :
                       r.id = insertId[p] => r.professor = req[p].token.user_id
                 /\ \A c \in conflicts[p] :
                       c.conflict_entity = "Professor"
                           => c.row.professor = req[p].token.user_id
            ELSE /\ pc[p] = "done"
                 /\ status[p] = IF req[p].token.kind = "none" THEN 401 ELSE 403
                 /\ ~conn[p] /\ ~txn[p]
                 /\ conflicts[p] = {} /\ insertId[p] = 0
                 /\ \A r \in schedule : r.owner # p

C29_Witness ==
    \E p \in Attempts : \E o \in Attempts : \E r \in Committed :
        /\ status[p] = 201 /\ r.id = insertId[p]
        /\ req[p].body_professor \in ProfessorIds
        /\ req[p].body_professor # req[p].token.user_id
        /\ r.professor = req[p].token.user_id
        /\ status[o] = 403 /\ req[o].token.role = "Student"

\* C30: every committed Extra row stores the weekday of its own class_date
\* as day_of_week, and the dates of its start_time and end_time are that
\* class_date; the row a booking committed carries the request's date.
C30_ExtraRowConsistent ==
    /\ \A r \in Committed :
          r.ctype = "Extra" =>
              /\ r.cdate # NoDate
              /\ r.dow = DayOfWeek(r.cdate)
              /\ r.st.d = r.cdate
              /\ r.en.d = r.cdate
    /\ \A p \in Attempts : \A r \in Committed :
          r.id = insertId[p] => r.ctype = "Extra" /\ r.cdate = req[p].date.d

C30_Witness ==
    \E p \in Attempts : \E r \in Committed :
        /\ status[p] = 201 /\ r.id = insertId[p] /\ r.ctype = "Extra"
        /\ req[p].end.k = "hms" /\ req[p].start.k = "hm"
        /\ tz # 0
        /\ LocalDay(UtcMidnight(req[p].date.d), tz) # req[p].date.d
        /\ r.en.d = r.cdate /\ r.st.d = r.cdate

====
